---- MODULE Spec2Model ----
(***************************************************************************)
(* invoice_extractor: the configuration (config.py), the document          *)
(* validator (validators.py), the processor (processor.py) and the command *)
(* line entry point (cli.py), as one state machine.  One behaviour is one  *)
(* invocation: either the command line `main(input_file)`, or a library    *)
(* caller doing `InvoiceProcessor().process_invoice_sync(input_file)`.     *)
(*                                                                         *)
(* Text is a sequence of string pieces (an f-string is the sequence of its *)
(* literal and formatted parts); model identifiers are sequences of        *)
(* characters, because the code searches them for substrings.              *)
(***************************************************************************)
EXTENDS Integers, Sequences, FiniteSets, TLC

\* ------------------------------------------------------------------ bounds
\* Largest MAX_FILE_SIZE_MB the environment configures (0..MaxLimitMB).
MaxLimitMB == 2
\* How many times another process may remove or replace the input file
\* while the validator runs.
MaxFsChanges == 1

\* ------------------------------------------------------------ Python values
\* Optional[T]: None, or a value.
None == [isNone |-> TRUE]
Some(v) == [isNone |-> FALSE, val |-> v]

\* Truth value of an Optional[str]: None and "" are falsy.
Truthy(x) == x # None /\ x.val # ""

\* Python's `a or b`: a when a is truthy, else b.
PyOr(a, b) == IF Truthy(a) THEN a ELSE b

\* `needle in hay` for sequences of pieces or of characters.
IsSubSeq(needle, hay) ==
    \E i \in 1..(Len(hay) - Len(needle) + 1) :
        SubSeq(hay, i, i + Len(needle) - 1) = needle

\* str.lower() on a sequence of characters (the upper-case letters in use).
LowerChar(c) ==
    CASE c = "G" -> "g" [] c = "P" -> "p" [] c = "T" -> "t"
      [] c = "C" -> "c" [] c = "M" -> "m" [] OTHER -> c
Lower(s) == [i \in 1..Len(s) |-> LowerChar(s[i])]

\* -------------------------------------------------------------- config.py
DefaultOpenAIModel == <<"g","p","t","-","4","o">>
DefaultGeminiModel ==
    <<"g","e","m","i","n","i","-","2",".","0","-","f","l","a","s","h","-","e","x","p">>
DefaultAnthropicModel ==
    <<"c","l","a","u","d","e","-","3","-","5","-","s","o","n","n","e","t","-",
      "2","0","2","4","1","0","2","2">>

\* Values of OPENAI_MODEL in the environment: unset (the default), a
\* deployment name that mentions another family, and a model whose name
\* mentions no family.
OpenAIModels ==
    {DefaultOpenAIModel, <<"m","y","-","g","e","m","i","n","i">>, <<"o","3">>}
GeminiModels == {DefaultGeminiModel}
AnthropicModels == {DefaultAnthropicModel}

\* A credential variable is unset, set to the empty string, or set to a key.
Credentials(key) == {None, Some(""), Some(key)}

SettingsSet ==
    [openai_api_key : Credentials("sk-openai"),
     openai_model : OpenAIModels,
     gemini_api_key : Credentials("gm-key"),
     gemini_model : GeminiModels,
     anthropic_api_key : Credentials("ant-key"),
     anthropic_model : AnthropicModels,
     supported_formats : {<<"pdf", "png", "jpg", "jpeg">>},
     max_file_size_mb : 0..MaxLimitMB]

\* has_ai_provider testing the credentials for None only.
has_ai_provider_NotNone(s) ==
    s.openai_api_key # None \/ s.gemini_api_key # None \/ s.anthropic_api_key # None

\* Settings.has_ai_provider
has_ai_provider(s) ==
    Truthy(PyOr(PyOr(s.openai_api_key, s.gemini_api_key), s.anthropic_api_key))

\* get_preferred_model asking for Gemini before OpenAI.
get_preferred_model_GeminiFirst(s) ==
    IF Truthy(s.gemini_api_key)
    THEN [raised |-> FALSE, model |-> s.gemini_model, api_key |-> s.gemini_api_key.val]
    ELSE IF Truthy(s.openai_api_key)
    THEN [raised |-> FALSE, model |-> s.openai_model, api_key |-> s.openai_api_key.val]
    ELSE IF Truthy(s.anthropic_api_key)
    THEN [raised |-> FALSE, model |-> s.anthropic_model,
          api_key |-> s.anthropic_api_key.val]
    ELSE [raised |-> TRUE,
          error |-> [type |-> "ValueError", msg |-> <<"No AI provider configured">>]]

\* Settings.get_preferred_model: [raised, model, api_key, error]
get_preferred_model(s) ==
    IF Truthy(s.openai_api_key)
    THEN [raised |-> FALSE, model |-> s.openai_model, api_key |-> s.openai_api_key.val]
    ELSE IF Truthy(s.gemini_api_key)
    THEN [raised |-> FALSE, model |-> s.gemini_model, api_key |-> s.gemini_api_key.val]
    ELSE IF Truthy(s.anthropic_api_key)
    THEN [raised |-> FALSE, model |-> s.anthropic_model,
          api_key |-> s.anthropic_api_key.val]
    ELSE [raised |-> TRUE,
          error |-> [type |-> "ValueError", msg |-> <<"No AI provider configured">>]]

\* ----------------------------------------------------------- validators.py
\* 1024 * 1024, the bytes of one megabyte (validate_file_size).
BytesPerMB == 1024 * 1024

\* The sniffed types of the files in use (what libmagic reports for the
\* file's header); the first four are the keys of supported_mime_types.
Mimes ==
    {"application/pdf", "image/png", "image/jpeg", "image/jpg",
     "text/plain", "application/msword"}

\* What the input path names: nothing, a directory, or a regular file with
\* a byte length and a header.
Missing == [kind |-> "missing", size |-> 0, mime |-> ""]
Directory == [kind |-> "dir", size |-> 4096, mime |-> "inode/directory"]
RegularFile(size, mime) == [kind |-> "file", size |-> size, mime |-> mime]

\* Byte lengths around the configured limit of limit_mb megabytes.
Sizes(limit_mb) ==
    {0, limit_mb * BytesPerMB, limit_mb * BytesPerMB + 1, 2 * limit_mb * BytesPerMB}

Files(limit_mb) ==
    {Missing, Directory}
        \cup {RegularFile(n, m) : n \in Sizes(limit_mb), m \in Mimes}

\* The documents a library caller is run on: process_invoice never looks
\* at the file itself, so one of each verdict of the validator is enough.
LibraryFiles(limit_mb) ==
    {Missing, RegularFile(0, "application/pdf"), RegularFile(0, "text/plain"),
     RegularFile(limit_mb * BytesPerMB + 1, "application/pdf")}

\* The input paths: the name is independent of the content.
Paths == {[stem |-> "invoice", suffix |-> ".pdf"], [stem |-> "scan", suffix |-> ".png"]}
PathStr(p) == p.stem \o p.suffix

\* validate_file_exists taking every path to exist.
validate_file_exists_Always(f) == TRUE

\* validate_file_exists: Path(file_path).exists()
validate_file_exists(f) == f.kind # "missing"

\* f"{x:.1f}" for x = file_size / 1024 / 1024 (exact in binary floating
\* point): the nearest tenth, a tie going to the even tenth.
Tenths(file_size) ==
    LET q == (file_size * 10) \div BytesPerMB
        r == (file_size * 10) % BytesPerMB
    IN  IF 2 * r > BytesPerMB \/ (2 * r = BytesPerMB /\ q % 2 = 1) THEN q + 1 ELSE q
Format1f(file_size) ==
    ToString(Tenths(file_size) \div 10) \o "." \o ToString(Tenths(file_size) % 10)

\* validate_file_size rejecting a file of exactly the limit (>= for >).
validate_file_size_Inclusive(f, s) ==
    LET file_size == f.size
        max_size == s.max_file_size_mb * 1024 * 1024
    IN  IF file_size >= max_size
        THEN [ok |-> FALSE,
              msg |-> <<"File size (", Format1f(file_size), "MB) exceeds limit (",
                        ToString(s.max_file_size_mb), "MB)">>]
        ELSE [ok |-> TRUE, msg |-> <<>>]

\* validate_file_size, for a path os.path.getsize can stat: [ok, msg]
validate_file_size(f, s) ==
    LET file_size == f.size
        max_size == s.max_file_size_mb * 1024 * 1024
    IN  IF file_size > max_size
        THEN [ok |-> FALSE,
              msg |-> <<"File size (", Format1f(file_size), "MB) exceeds limit (",
                        ToString(s.max_file_size_mb), "MB)">>]
        ELSE [ok |-> TRUE, msg |-> <<>>]

\* magic.from_file(file_path, mime=True): the sniffed type, or an exception.
\* A vanished path cannot be opened; for a directory the library either
\* reports inode/directory or refuses to open it, depending on its version.
magic_from_file(f) ==
    CASE f.kind = "missing" ->
            {[raised |-> TRUE, error |-> [type |-> "FileNotFoundError",
                                          msg |-> <<"No such file or directory">>]]}
      [] f.kind = "dir" ->
            {[raised |-> FALSE, mime |-> f.mime],
             [raised |-> TRUE, error |-> [type |-> "IsADirectoryError",
                                          msg |-> <<"Is a directory">>]]}
      [] OTHER -> {[raised |-> FALSE, mime |-> f.mime]}

\* supported_mime_types: the dict literal of validate_file_format.
supported_mime_types ==
    [m \in {"application/pdf", "image/png", "image/jpeg", "image/jpg"} |->
        CASE m = "application/pdf" -> "pdf"
          [] m = "image/png" -> "png"
          [] OTHER -> "jpg"]

InSeq(x, seq) == \E i \in 1..Len(seq) : seq[i] = x

\* validate_file_format, given what magic.from_file did: [ok, msg]
validate_file_format(sniff, s) ==
    IF sniff.raised
    THEN [ok |-> FALSE, msg |-> <<"Error detecting file type: ">> \o sniff.error.msg]
    ELSE IF sniff.mime \notin DOMAIN supported_mime_types
    THEN [ok |-> FALSE, msg |-> <<"Unsupported file type: ", sniff.mime>>]
    ELSE IF ~InSeq(supported_mime_types[sniff.mime], s.supported_formats)
    THEN [ok |-> FALSE,
          msg |-> <<"Format ", supported_mime_types[sniff.mime], " not supported">>]
    ELSE [ok |-> TRUE, msg |-> <<supported_mime_types[sniff.mime]>>]

\* -------------------------------------------------------------- models.py
\* InvoiceData(invoice_number=..., notes=...): every other field defaults.
InvoiceData(invoice_number, notes) ==
    [invoice_number |-> invoice_number, date |-> None, due_date |-> None,
     vendor |-> None, customer |-> None, totals |-> None, line_items |-> <<>>,
     notes |-> notes, payment_terms |-> None]

\* ProcessingResult(success=True, invoice_data=..., processing_time=...,
\* confidence_score=0.9); the score is kept in tenths.
SuccessResult(invoice_data, processing_time) ==
    [success |-> TRUE, invoice_data |-> Some(invoice_data), error_message |-> None,
     processing_time |-> Some(processing_time), confidence_score |-> Some(9)]

\* FailedResult without its error_message argument.
FailedResult_NoMessage(e, processing_time) ==
    [success |-> FALSE, invoice_data |-> None, error_message |-> None,
     processing_time |-> Some(processing_time), confidence_score |-> None]

\* FailedResult without its processing_time argument.
FailedResult_NoTime(e, processing_time) ==
    [success |-> FALSE, invoice_data |-> None,
     error_message |-> Some(<<"Processing failed: ">> \o e.msg),
     processing_time |-> None, confidence_score |-> None]

\* ProcessingResult(success=False, error_message=f"Processing failed: {e}",
\* processing_time=...)
FailedResult(e, processing_time) ==
    [success |-> FALSE, invoice_data |-> None,
     error_message |-> Some(<<"Processing failed: ">> \o e.msg),
     processing_time |-> Some(processing_time), confidence_score |-> None]

\* ----------------------------------------------------------- processor.py
Min(a, b) == IF a < b THEN a ELSE b

\* A Python str of the backend is a named text of `len` characters; a slice
\* text[:k] is its first min(len, k) characters.
Text(name, len) == [type |-> "str", name |-> name, len |-> len]
NoneValue == [type |-> "NoneType"]
\* (A slice that keeps the whole text.)
Slice_Whole(content, k) == content
Slice(content, k) == Text(content.name, Min(content.len, k))
\* The piece an f-string renders for a (slice of a) text.
Rendered(text) == text.name \o "[:" \o ToString(text.len) \o "]"

\* What `await zerox(...)` does: raise, or return an object with a content
\* attribute (a str, or None), an object without one, or None.
BackendErrors ==
    {[type |-> "ConnectionError", msg |-> <<"network unreachable">>],
     [type |-> "AuthenticationError", msg |-> <<"invalid api key">>]}
BackendTexts == {Text("raw", 0), Text("raw", 500), Text("raw", 501)}
ZeroxReturns ==
    {[kind |-> "output", content |-> t] : t \in BackendTexts}
        \cup {[kind |-> "output", content |-> NoneValue],
              [kind |-> "noattr", repr |-> Text("ZeroxOutput(...)", 64)],
              [kind |-> "None", repr |-> Text("None", 4)]}
ZeroxOutcomes ==
    {[raised |-> TRUE, error |-> e] : e \in BackendErrors}
        \cup {[raised |-> FALSE, value |-> v] : v \in ZeroxReturns}

\* `if result and hasattr(result, 'content'): content = result.content
\*  else: content = str(result)`
ExtractContent(zresult) ==
    IF zresult.kind = "output" THEN zresult.content ELSE zresult.repr

NotSubscriptable ==
    [type |-> "TypeError", msg |-> <<"'NoneType' object is not subscriptable">>]

\* InvoiceProcessor._parse_extracted_data: [raised, value | error].  The
\* slice content[:500] raises for a content that is no sequence; the handler
\* then slices content[:200], which raises again, out of the method.
_parse_extracted_data(content) ==
    IF content.type = "str"
    THEN [raised |-> FALSE,
          value |-> InvoiceData(Some("Extracted from AI response"),
                                Some(<<"Raw extracted content: ",
                                       Rendered(Slice(content, 500)), "...">>))]
    ELSE [raised |-> TRUE, error |-> NotSubscriptable]

\* InvoiceProcessor._setup_environment: the os.environ after it.
_setup_environment(model, api_key, env) ==
    IF IsSubSeq(<<"g","p","t">>, Lower(model))
    THEN [env EXCEPT !.OPENAI_API_KEY = Some(api_key)]
    ELSE IF IsSubSeq(<<"g","e","m","i","n","i">>, Lower(model))
    THEN [env EXCEPT !.GEMINI_API_KEY = Some(api_key)]
    ELSE IF IsSubSeq(<<"c","l","a","u","d","e">>, Lower(model))
    THEN [env EXCEPT !.ANTHROPIC_API_KEY = Some(api_key)]
    ELSE env

\* The ValueError of InvoiceProcessor.__init__.
NoProviderError ==
    [type |-> "ValueError",
     msg |-> <<"No AI provider configured", ". Please set API keys in .env file.">>]

\* ------------------------------------------------------------------ state
VARIABLES
    caller,         \* "cli": main(input_file); "lib": a library caller
    pc,             \* where the invocation is
    settings,       \* config.settings, read once at import
    environ,        \* os.environ, the three credential variables
    input_file,     \* the path argument
    fs,             \* what the path names in the file system now
    fs_changes,     \* removals/replacements by other processes so far
    vlog,           \* the stages validate_invoice_file evaluated, with the
                    \* file each one saw
    validation,     \* what validate_invoice_file returned: None | Some([ok, msg])
    output,         \* the output path main settled on, and whether --output
                    \* gave it: None | Some([given, path])
    processor,      \* the InvoiceProcessor: None | Some([model, api_key])
    stages,         \* the stages process_invoice went through
    backend_calls,  \* calls of zerox
    content,        \* process_invoice's local `content`
    now,            \* time.time()
    start_time,     \* process_invoice's local start_time
    result,         \* the ProcessingResult returned: None | Some(...)
    exception,      \* the exception that left the called function, if any
    exit_code,      \* main's exit status: None | Some(n)
    stderr,         \* the lines main wrote to standard error
    output_file     \* the file main wrote: None | Some([path, document])

vars ==
    <<caller, pc, settings, environ, input_file, fs, fs_changes, vlog, validation,
      output, processor, stages, backend_calls, content, now, start_time, result,
      exception, exit_code, stderr, output_file>>

\* The state after `from .config import settings` and before the call.
Init ==
    /\ caller \in {"cli", "lib"}
    /\ pc = IF caller = "cli" THEN "cli_args" ELSE "construct"
    /\ settings \in SettingsSet
    /\ environ = [OPENAI_API_KEY |-> settings.openai_api_key,
                  GEMINI_API_KEY |-> settings.gemini_api_key,
                  ANTHROPIC_API_KEY |-> settings.anthropic_api_key]
    /\ input_file \in Paths
    /\ fs \in IF caller = "cli"
              THEN Files(settings.max_file_size_mb)
              ELSE LibraryFiles(settings.max_file_size_mb)
    /\ fs_changes = 0
    /\ vlog = <<>>
    /\ validation = None
    /\ output = None
    /\ processor = None
    /\ stages = <<>>
    /\ backend_calls = 0
    /\ content = None
    /\ now = 0
    /\ start_time = 0
    /\ result = None
    /\ exception = None
    /\ exit_code = None
    /\ stderr = <<>>
    /\ output_file = None

\* ----------------------------------------------------------------- cli.py
\* sys.exit(code) with nothing written to standard error.
Exit_Quiet(code, lines) ==
    /\ exit_code' = Some(code)
    /\ stderr' = stderr
    /\ pc' = "exited"

\* sys.exit(code) after the lines written to standard error.
Exit(code, lines) ==
    /\ exit_code' = Some(code)
    /\ stderr' = stderr \o lines
    /\ pc' = "exited"

\* with_suffix that leaves the extension as it is.
with_suffix_Keep(path, suffix) == [stem |-> path.stem, suffix |-> path.suffix]

\* Path(input_file).with_suffix(suffix)
with_suffix(path, suffix) == [stem |-> path.stem, suffix |-> suffix]

\* The --output option: absent, or a path.
OutputOptions == {None, Some([stem |-> "result", suffix |-> ".json"])}

\* The argument declared as a plain click.Path(): any path goes through.
ClickPathExists_NoCheck ==
    /\ pc = "cli_args"
    /\ pc' = "cli_config"
    /\ UNCHANGED <<caller, settings, environ, input_file, fs, fs_changes, vlog,
                   validation, output, processor, stages, backend_calls, content,
                   now, start_time, result, exception, exit_code, stderr,
                   output_file>>

\* @click.argument("input_file", type=click.Path(exists=True)): click
\* rejects a path that does not exist with a usage error, status 2.
ClickPathExists ==
    /\ pc = "cli_args"
    /\ IF fs.kind = "missing"
       THEN Exit(2, << <<"Error: Invalid value for 'INPUT_FILE': Path '",
                         PathStr(input_file), "' does not exist.">> >>)
       ELSE /\ pc' = "cli_config"
            /\ UNCHANGED <<exit_code, stderr>>
    /\ UNCHANGED <<caller, settings, environ, input_file, fs, fs_changes, vlog,
                   validation, output, processor, stages, backend_calls, content,
                   now, start_time, result, exception, output_file>>

\* main: `if not settings.has_ai_provider:` ... sys.exit(1)
CliCheckConfig ==
    /\ pc = "cli_config"
    /\ IF ~has_ai_provider(settings)
       THEN Exit(1, << <<"Error: ", "No AI provider configured", ".">>,
                       <<"Please set API keys in .env file:">>,
                       <<"  - OPENAI_API_KEY for OpenAI GPT models">>,
                       <<"  - GEMINI_API_KEY for Google Gemini models">>,
                       <<"  - ANTHROPIC_API_KEY for Anthropic Claude models">> >>)
       ELSE /\ pc' = "v_exists"
            /\ UNCHANGED <<exit_code, stderr>>
    /\ UNCHANGED <<caller, settings, environ, input_file, fs, fs_changes, vlog,
                   validation, output, processor, stages, backend_calls, content,
                   now, start_time, result, exception, output_file>>

\* Another process removes the input file, or replaces it with a larger
\* file of another type, before a check of the validator: after click has
\* seen the path, or between two checks.
Replacements(limit_mb) ==
    {Missing, RegularFile(2 * limit_mb * BytesPerMB, "text/plain")}

FsChange ==
    /\ pc \in {"v_exists", "v_size", "v_format"}
    /\ fs_changes < MaxFsChanges
    /\ \E f \in Replacements(settings.max_file_size_mb) :
          /\ f # fs
          /\ fs' = f
    /\ fs_changes' = fs_changes + 1
    /\ UNCHANGED <<caller, pc, settings, environ, input_file, vlog, validation,
                   output, processor, stages, backend_calls, content, now,
                   start_time, result, exception, exit_code, stderr, output_file>>

\* validate_invoice_file: `if not validate_file_exists(file_path): return
\* False, f"File not found: {file_path}"`
ValidateExists ==
    /\ pc = "v_exists"
    /\ vlog' = Append(vlog, [stage |-> "exists", file |-> fs])
    /\ IF ~validate_file_exists(fs)
       THEN /\ validation' =
                  Some([ok |-> FALSE,
                        msg |-> <<"File not found: ", PathStr(input_file)>>])
            /\ pc' = "cli_validated"
       ELSE /\ pc' = "v_size"
            /\ UNCHANGED validation
    /\ UNCHANGED <<caller, settings, environ, input_file, fs, fs_changes, output,
                   processor, stages, backend_calls, content, now, start_time,
                   result, exception, exit_code, stderr, output_file>>

\* validate_invoice_file: `size_valid, size_error = validate_file_size(
\* file_path)`.  os.path.getsize raises FileNotFoundError for a path that is
\* gone; nothing between it and the interpreter catches that, so the program
\* ends with a traceback and status 1.
ValidateSize ==
    /\ pc = "v_size"
    /\ vlog' = Append(vlog, [stage |-> "size", file |-> fs])
    /\ IF fs.kind = "missing"
       THEN /\ exception' = Some([type |-> "FileNotFoundError",
                                  msg |-> <<"No such file or directory">>])
            /\ Exit(1, << <<"Traceback (most recent call last):">> >>)
            /\ UNCHANGED validation
       ELSE /\ IF ~validate_file_size(fs, settings).ok
               THEN /\ validation' =
                          Some([ok |-> FALSE,
                                msg |-> validate_file_size(fs, settings).msg])
                    /\ pc' = "cli_validated"
               ELSE /\ pc' = "v_format"
                    /\ UNCHANGED validation
            /\ UNCHANGED <<exception, exit_code, stderr>>
    /\ UNCHANGED <<caller, settings, environ, input_file, fs, fs_changes, output,
                   processor, stages, backend_calls, content, now, start_time,
                   result, output_file>>

\* ValidateFormat taking the type from the suffix of the name.
ValidateFormat_BySuffix ==
    /\ pc = "v_format"
    /\ vlog' = Append(vlog, [stage |-> "format", file |-> fs])
    /\ LET named == IF input_file.suffix = ".pdf" THEN "application/pdf"
                    ELSE "image/png"
           r == validate_file_format([raised |-> FALSE, mime |-> named], settings)
       IN  validation' =
              IF ~r.ok
              THEN Some([ok |-> FALSE, msg |-> r.msg])
              ELSE Some([ok |-> TRUE, msg |-> <<"Valid ", r.msg[1], " file">>])
    /\ pc' = "cli_validated"
    /\ UNCHANGED <<caller, settings, environ, input_file, fs, fs_changes, output,
                   processor, stages, backend_calls, content, now, start_time,
                   result, exception, exit_code, stderr, output_file>>

\* validate_invoice_file: `format_valid, format_result =
\* validate_file_format(file_path)` and the two returns after it.
ValidateFormat ==
    /\ pc = "v_format"
    /\ vlog' = Append(vlog, [stage |-> "format", file |-> fs])
    /\ \E sniff \in magic_from_file(fs) :
          LET r == validate_file_format(sniff, settings)
          IN  validation' =
                 IF ~r.ok
                 THEN Some([ok |-> FALSE, msg |-> r.msg])
                 ELSE Some([ok |-> TRUE, msg |-> <<"Valid ", r.msg[1], " file">>])
    /\ pc' = "cli_validated"
    /\ UNCHANGED <<caller, settings, environ, input_file, fs, fs_changes, output,
                   processor, stages, backend_calls, content, now, start_time,
                   result, exception, exit_code, stderr, output_file>>

\* CliAfterValidate going on whatever the validator returned.
CliAfterValidate_Ignores ==
    /\ pc = "cli_validated"
    /\ output' = Some([given |-> FALSE, path |-> with_suffix(input_file, ".json")])
    /\ pc' = "construct"
    /\ UNCHANGED <<caller, settings, environ, input_file, fs, fs_changes, vlog,
                   validation, processor, stages, backend_calls, content, now,
                   start_time, result, exception, exit_code, stderr, output_file>>

\* main: `if not is_valid:` ... sys.exit(1), else the output path.
CliAfterValidate ==
    /\ pc = "cli_validated"
    /\ IF ~validation.val.ok
       THEN /\ Exit(1, << <<"File validation failed: ">> \o validation.val.msg >>)
            /\ UNCHANGED output
       ELSE /\ \E o \in OutputOptions :
                  output' = IF o = None
                            THEN Some([given |-> FALSE,
                                       path |-> with_suffix(input_file, ".json")])
                            ELSE Some([given |-> TRUE, path |-> o.val])
            /\ pc' = "construct"
            /\ UNCHANGED <<exit_code, stderr>>
    /\ UNCHANGED <<caller, settings, environ, input_file, fs, fs_changes, vlog,
                   validation, processor, stages, backend_calls, content, now,
                   start_time, result, exception, output_file>>

\* ConstructRaises with the error wrapped as a failed result instead.
ConstructRaises_Wrapped ==
    /\ result' = Some(FailedResult(NoProviderError, 0))
    /\ stages' = Append(stages, "Failed")
    /\ pc' = IF caller = "cli" THEN "cli_result" ELSE "returned"
    /\ UNCHANGED <<processor, environ, exception, exit_code, stderr>>

\* InvoiceProcessor.__init__ with no provider configured: `raise ValueError(
\* "No AI provider configured. ...")`.  The exception leaves the
\* constructor; main's `except Exception` reports it and exits 1, a library
\* caller receives it.
ConstructRaises ==
    /\ exception' = Some(NoProviderError)
    /\ IF caller = "cli"
       THEN Exit(1, << <<"Unexpected error: ">> \o NoProviderError.msg >>)
       ELSE /\ pc' = "raised"
            /\ UNCHANGED <<exit_code, stderr>>
    /\ UNCHANGED <<processor, environ, result, stages>>

\* InvoiceProcessor(): __init__ and _setup_environment.
Construct ==
    /\ pc = "construct"
    /\ IF ~has_ai_provider(settings)
       THEN ConstructRaises
       ELSE /\ processor' = Some([model |-> get_preferred_model(settings).model,
                                  api_key |-> get_preferred_model(settings).api_key])
            /\ environ' = _setup_environment(get_preferred_model(settings).model,
                                             get_preferred_model(settings).api_key,
                                             environ)
            /\ pc' = "p_start"
            /\ UNCHANGED <<exception, exit_code, stderr, result, stages>>
    /\ UNCHANGED <<caller, settings, input_file, fs, fs_changes, vlog, validation,
                   output, backend_calls, content, now, start_time, output_file>>

\* process_invoice: `start_time = time.time()`, the prompt.
ProcessStart ==
    /\ pc = "p_start"
    /\ start_time' = now
    /\ stages' = Append(stages, "Start")
    /\ pc' = "p_extract"
    /\ UNCHANGED <<caller, settings, environ, input_file, fs, fs_changes, vlog,
                   validation, output, processor, backend_calls, content, now,
                   result, exception, exit_code, stderr, output_file>>

\* Where process_invoice returns to.
ReturnPc == IF caller = "cli" THEN "cli_result" ELSE "returned"

\* process_invoice: `result = await zerox(...)` and the content taken from
\* it; an exception of the backend goes to `except Exception`.  The clock
\* moves on by one tick while the call is awaited.
BackendCall ==
    /\ pc = "p_extract"
    /\ backend_calls' = backend_calls + 1
    /\ now' = now + 1
    /\ \E o \in ZeroxOutcomes :
          /\ IF o.raised
             THEN /\ result' = Some(FailedResult(o.error, now' - start_time))
                  /\ stages' = Append(stages, "Failed")
                  /\ pc' = ReturnPc
                  /\ UNCHANGED content
             ELSE /\ content' = Some(ExtractContent(o.value))
                  /\ stages' = Append(stages, "Extracted")
                  /\ pc' = "p_parse"
                  /\ UNCHANGED result
    /\ UNCHANGED <<caller, settings, environ, input_file, fs, fs_changes, vlog,
                   validation, output, processor, start_time, exception, exit_code,
                   stderr, output_file>>

\* Parse calling the backend again when the parser raised.
Parse_Retries ==
    /\ pc = "p_parse"
    /\ LET parsed == _parse_extracted_data(content.val)
       IN  IF parsed.raised
           THEN /\ result' = Some(FailedResult(parsed.error, now - start_time))
                /\ stages' = Append(stages, "Failed")
                /\ pc' = "p_extract"
           ELSE /\ result' = Some(SuccessResult(parsed.value, now - start_time))
                /\ stages' = stages \o <<"Parsed", "Done">>
                /\ pc' = ReturnPc
    /\ UNCHANGED <<caller, settings, environ, input_file, fs, fs_changes, vlog,
                   validation, output, processor, backend_calls, content, now,
                   start_time, exception, exit_code, stderr, output_file>>

\* process_invoice: `invoice_data = self._parse_extracted_data(content)`,
\* the duration and the result returned.
Parse ==
    /\ pc = "p_parse"
    /\ LET parsed == _parse_extracted_data(content.val)
       IN  IF parsed.raised
           THEN /\ result' = Some(FailedResult(parsed.error, now - start_time))
                /\ stages' = Append(stages, "Failed")
           ELSE /\ result' = Some(SuccessResult(parsed.value, now - start_time))
                /\ stages' = stages \o <<"Parsed", "Done">>
    /\ pc' = ReturnPc
    /\ UNCHANGED <<caller, settings, environ, input_file, fs, fs_changes, vlog,
                   validation, output, processor, backend_calls, content, now,
                   start_time, exception, exit_code, stderr, output_file>>

\* main's output_data for a result.
OutputData(r) ==
    [success |-> r.success,
     processing_time |-> r.processing_time,
     confidence_score |-> r.confidence_score,
     invoice_data |-> r.invoice_data,
     metadata |-> [input_file |-> PathStr(input_file),
                   output_file |-> PathStr(output.val.path),
                   model_used |-> get_preferred_model(settings).model]]

\* main writing the document before it looks at result.success.
CliResult_WritesOnFailure ==
    /\ pc = "cli_result"
    /\ output_file' = Some([path |-> output.val.path,
                            document |-> OutputData(result.val)])
    /\ IF ~result.val.success
       THEN Exit(1, << <<"Processing failed: ">> \o result.val.error_message.val >>)
       ELSE /\ exit_code' = Some(0)
            /\ pc' = "exited"
            /\ UNCHANGED stderr
    /\ UNCHANGED <<caller, settings, environ, input_file, fs, fs_changes, vlog,
                   validation, output, processor, stages, backend_calls, content,
                   now, start_time, result, exception>>

\* main, after process_invoice_sync returned: `if not result.success:` ...
\* sys.exit(1); else output_data, the file, the closing lines.  Building
\* output_data calls InvoiceData.model_dump(), which the installed pydantic
\* has or has not; opening the output path succeeds or raises OSError.  Both
\* exceptions go to `except Exception`.
CliResult ==
    /\ pc = "cli_result"
    /\ IF ~result.val.success
       THEN /\ Exit(1, << <<"Processing failed: ">> \o result.val.error_message.val >>)
            /\ UNCHANGED output_file
       ELSE \E has_model_dump \in BOOLEAN, can_open \in BOOLEAN :
              IF ~has_model_dump
              THEN /\ Exit(1, << <<"Unexpected error: ",
                                   "'InvoiceData' object has no attribute 'model_dump'">> >>)
                   /\ UNCHANGED output_file
              ELSE IF ~can_open
              THEN /\ Exit(1, << <<"Unexpected error: ", "Permission denied">> >>)
                   /\ UNCHANGED output_file
              ELSE /\ output_file' = Some([path |-> output.val.path,
                                            document |-> OutputData(result.val)])
                   /\ exit_code' = Some(0)
                   /\ pc' = "exited"
                   /\ UNCHANGED stderr
    /\ UNCHANGED <<caller, settings, environ, input_file, fs, fs_changes, vlog,
                   validation, output, processor, stages, backend_calls, content,
                   now, start_time, result, exception>>

Next ==
    \/ ClickPathExists
    \/ CliCheckConfig
    \/ FsChange
    \/ ValidateExists
    \/ ValidateSize
    \/ ValidateFormat
    \/ CliAfterValidate
    \/ Construct
    \/ ProcessStart
    \/ BackendCall
    \/ Parse
    \/ CliResult

Spec == Init /\ [][Next]_vars

\* ----------------------------------------------------------------- claims
\* The terms of the claims, stated on the configuration and the file system
\* rather than through the operators above.
Set(x) == x # None /\ x.val # ""
NoCredentials ==
    /\ ~Set(settings.openai_api_key)
    /\ ~Set(settings.gemini_api_key)
    /\ ~Set(settings.anthropic_api_key)
Says(text, message) == \E i \in 1..Len(message) : message[i] = text

\* C1: every ProcessingResult process_invoice returns has success=true with
\* invoice_data non-null and error_message null, or success=false with
\* invoice_data null and error_message non-null.
C1_EnvelopeConsistent ==
    result # None =>
        /\ result.val.success =>
              result.val.invoice_data # None /\ result.val.error_message = None
        /\ ~result.val.success =>
              result.val.invoice_data = None /\ result.val.error_message # None

\* A result returned on the failure path that the parser's exception takes.
C1_Witness ==
    /\ result # None
    /\ ~result.val.success
    /\ stages = <<"Start", "Extracted", "Failed">>

\* C2 as claimed: with no credential configured, processing a path through
\* the processor ends with a failed ProcessingResult whose error_message
\* says "No AI provider configured", and no exception reaches the caller.
C2_Original ==
    (NoCredentials /\ pc \in {"returned", "raised"}) =>
        /\ result # None
        /\ ~result.val.success
        /\ Says("No AI provider configured", result.val.error_message.val)
        /\ exception = None

\* C2 as amended: with no credential configured, constructing the processor
\* raises the ValueError "No AI provider configured..." to the caller; no
\* processor exists, no ProcessingResult is produced and the backend is not
\* called.  The command line checks the configuration itself and exits 1
\* (2 for a path that does not exist) with that text on standard error.
C2_NoBackendRaises ==
    NoCredentials =>
        /\ result = None /\ processor = None /\ backend_calls = 0
        /\ caller = "lib" => pc \in {"construct", "raised"}
        /\ pc = "raised" =>
              /\ exception # None
              /\ exception.val.type = "ValueError"
              /\ Says("No AI provider configured", exception.val.msg)
        /\ (caller = "cli" /\ pc = "exited") =>
              /\ exit_code \in {Some(1), Some(2)}
              /\ exit_code = Some(1) =>
                    Says("No AI provider configured", stderr[1])

\* The library caller has received the constructor's exception.
C2_Witness == NoCredentials /\ pc = "raised" /\ exception # None

\* What the validator's three checks say of a file under the settings.
Oversized(f) == f.size > settings.max_file_size_mb * 1048576
AcceptedMimes == {"application/pdf", "image/png", "image/jpeg", "image/jpg"}
Rejected(f) == f.kind = "missing" \/ Oversized(f) \/ f.mime \notin AcceptedMimes
Invalid == validation # None /\ ~validation.val.ok

\* C3 as claimed: for a path the validator rejects, process has invoked the
\* validator and returns a failed ProcessingResult whose error_message is
\* the validator's reason, the backend not having been called.
C3_Original ==
    (Rejected(fs) /\ pc \in {"returned", "cli_result"}) =>
        /\ Invalid
        /\ result # None
        /\ ~result.val.success
        /\ result.val.error_message = Some(validation.val.msg)
        /\ backend_calls = 0

\* C3 as amended: it is main that invokes the validator, after its
\* configuration check and before constructing the processor; for a path
\* the validator rejects main writes "File validation failed: <reason>" to
\* standard error and exits 1, with no processor constructed, no
\* ProcessingResult and no backend call.  process_invoice itself never
\* invokes the validator.
C3_CliRejects ==
    /\ Invalid =>
          /\ processor = None /\ result = None /\ backend_calls = 0
          /\ pc \in {"cli_validated", "exited"}
          /\ pc = "exited" =>
                /\ exit_code = Some(1)
                /\ stderr = << <<"File validation failed: ">> \o validation.val.msg >>
    /\ caller = "lib" => validation = None /\ vlog = <<>>
    /\ (caller = "cli" /\ processor # None) => validation # None /\ validation.val.ok

\* main has exited on a rejection of the content type.
C3_Witness ==
    /\ Invalid
    /\ pc = "exited"
    /\ Len(vlog) = 3
    /\ validation.val.msg[1] = "Unsupported file type: "

\* The order of the stages as claimed, and as process_invoice runs them.
ClaimedOrder == <<"Start", "Validated", "Extracted", "Parsed", "Done">>
ProcessOrder == <<"Start", "Extracted", "Parsed", "Done">>
\* `log` follows `order`: a prefix of it, or a prefix that went to Failed.
Follows(log, order) ==
    \/ /\ Len(log) <= Len(order)
       /\ log = SubSeq(order, 1, Len(log))
    \/ /\ Len(log) >= 1 /\ Len(log) - 1 < Len(order)
       /\ log[Len(log)] = "Failed"
       /\ SubSeq(log, 1, Len(log) - 1) = SubSeq(order, 1, Len(log) - 1)

\* C4 as claimed: a run of process goes Start -> Validated -> Extracted ->
\* Parsed -> Done, each stage at most once, the backend called at most once
\* and never before validation has passed, the parser only after the
\* backend returned; any stage may go to Failed, after which nothing runs.
C4_Original ==
    /\ Follows(stages, ClaimedOrder)
    /\ backend_calls <= 1
    /\ backend_calls > 0 => validation # None /\ validation.val.ok

\* C4 as amended: a run of process_invoice goes Start -> Extracted ->
\* Parsed -> Done, each stage at most once, the backend called at most once,
\* the parser only after the backend returned; any stage before Done may go
\* to Failed, after which nothing runs.  Validation is no stage of
\* process_invoice: main runs it before, so that under the command line the
\* backend is never called before validation has passed.
C4_Linear ==
    /\ Follows(stages, ProcessOrder)
    /\ backend_calls <= 1
    /\ backend_calls = 0 <=> Len(stages) <= 1
    /\ (Len(stages) >= 3 /\ stages[3] = "Parsed") => content # None
    /\ (caller = "cli" /\ backend_calls > 0) => validation # None /\ validation.val.ok
    /\ (result # None) <=> (Len(stages) >= 1 /\ stages[Len(stages)] \in {"Done", "Failed"})

\* A run that failed in the parser, after the backend had returned.
C4_Witness ==
    /\ stages = <<"Start", "Extracted", "Failed">>
    /\ backend_calls = 1
    /\ pc = "exited"

\* The three backends in the order of preference, as (credential, model).
Preference ==
    << [key |-> settings.openai_api_key, model |-> settings.openai_model],
       [key |-> settings.gemini_api_key, model |-> settings.gemini_model],
       [key |-> settings.anthropic_api_key, model |-> settings.anthropic_model] >>
FirstConfigured(i) ==
    /\ Set(Preference[i].key)
    /\ \A j \in 1..(i - 1) : ~Set(Preference[j].key)

\* C5: get_preferred_model returns the model identifier and the credential
\* of the first configured backend in the order OpenAI, Gemini, Anthropic,
\* both of the same backend, and fails exactly when no credential is set;
\* the processor constructed holds that pair.
C5_PreferredBackend ==
    /\ get_preferred_model(settings).raised <=> NoCredentials
    /\ \A i \in 1..3 :
          FirstConfigured(i) =>
              /\ get_preferred_model(settings).model = Preference[i].model
              /\ get_preferred_model(settings).api_key = Preference[i].key.val
              /\ processor # None =>
                    processor.val = [model |-> Preference[i].model,
                                     api_key |-> Preference[i].key.val]
    /\ processor # None => ~NoCredentials

\* A processor constructed for Gemini: OPENAI_API_KEY is set but empty,
\* Gemini and Anthropic are both configured.
C5_Witness ==
    /\ settings.openai_api_key = Some("")
    /\ Set(settings.gemini_api_key)
    /\ Set(settings.anthropic_api_key)
    /\ processor = Some([model |-> settings.gemini_model, api_key |-> "gm-key"])

\* C6: has_ai_provider is true iff at least one of the three credentials is
\* non-empty, an unset and an empty credential both counting as not
\* configured; main goes past its configuration check, and the constructor
\* returns, exactly under that condition.
C6_HasBackend ==
    /\ has_ai_provider(settings) <=> ~NoCredentials
    /\ (caller = "cli" /\ (Len(vlog) > 0 \/ pc = "v_exists")) => ~NoCredentials
    /\ (caller = "cli" /\ pc = "exited" /\ exit_code = Some(1)
           /\ vlog = <<>>) => NoCredentials
    /\ pc = "raised" => NoCredentials
    /\ processor # None => ~NoCredentials

\* main has refused a configuration of empty and unset credentials.
C6_Witness ==
    /\ settings.openai_api_key = Some("")
    /\ settings.gemini_api_key = None
    /\ settings.anthropic_api_key = Some("")
    /\ caller = "cli" /\ pc = "exited" /\ exit_code = Some(1)

ValidatorOrder == <<"exists", "size", "format">>
StageNames(log) == [i \in 1..Len(log) |-> log[i].stage]

\* C7: validate_invoice_file checks existence, size and content type in
\* that order and stops at the first failure: a path that is missing when
\* looked at gives "File not found: <path>" and nothing else is checked, a
\* file that is too large when measured gives the size reason and its type
\* is not checked, and a type reason or a success means both earlier checks
\* passed.
C7_ShortCircuit ==
    /\ Len(vlog) <= 3
    /\ StageNames(vlog) = SubSeq(ValidatorOrder, 1, Len(vlog))
    /\ (Len(vlog) >= 1 /\ vlog[1].file.kind = "missing") =>
          /\ Len(vlog) = 1
          /\ validation = Some([ok |-> FALSE,
                                msg |-> <<"File not found: ", PathStr(input_file)>>])
    /\ (Len(vlog) >= 2 /\ vlog[2].file.kind # "missing" /\ Oversized(vlog[2].file)) =>
          /\ Len(vlog) = 2
          /\ Invalid
          /\ validation.val.msg[1] = "File size ("
    /\ Invalid =>
          CASE validation.val.msg[1] = "File not found: " ->
                  Len(vlog) = 1 /\ vlog[1].file.kind = "missing"
            [] validation.val.msg[1] = "File size (" ->
                  Len(vlog) = 2 /\ vlog[1].file.kind # "missing"
            [] OTHER ->
                  /\ Len(vlog) = 3
                  /\ vlog[1].file.kind # "missing"
                  /\ ~Oversized(vlog[2].file)
    /\ (validation # None /\ validation.val.ok) =>
          /\ Len(vlog) = 3
          /\ vlog[1].file.kind # "missing"
          /\ ~Oversized(vlog[2].file)

\* A file that is both too large and of an unsupported type is refused for
\* its size, its type not having been looked at.
C7_Witness ==
    /\ Invalid
    /\ Len(vlog) = 2
    /\ vlog[2].file.mime = "text/plain"
    /\ validation.val.msg[1] = "File size ("

\* C8: the existence check passes only for a regular file; for a path that
\* does not exist or is not a regular file (a directory), validation fails
\* with "File not found: <path>".
C8_RegularFileOnly ==
    (Len(vlog) >= 1 /\ vlog[1].file.kind # "file") =>
        /\ Len(vlog) = 1
        /\ validation = Some([ok |-> FALSE,
                              msg |-> <<"File not found: ", PathStr(input_file)>>])

\* `text` is `size` bytes in megabytes to the nearest tenth.
NearestTenth(text, size) ==
    \E t \in 0..((10 * size) \div 1048576 + 1) :
        /\ text = ToString(t \div 10) \o "." \o ToString(t % 10)
        /\ 2 * (10 * size - t * 1048576) <= 1048576
        /\ 2 * (t * 1048576 - 10 * size) <= 1048576

\* C9: the size check accepts a file of at most MAX_FILE_SIZE_MB * 1,048,576
\* bytes and rejects any larger one: the file of exactly the limit passes
\* with an empty message, the file one byte larger fails, and the reason is
\* "File size (X.YMB) exceeds limit (NMB)".
C9_SizeBoundary ==
    /\ (Len(vlog) >= 2 /\ vlog[2].file.kind # "missing") =>
          IF vlog[2].file.size <= settings.max_file_size_mb * 1048576
          THEN (Len(vlog) = 2 /\ pc = "v_format") \/ Len(vlog) = 3
          ELSE /\ Len(vlog) = 2
               /\ Invalid
               /\ Len(validation.val.msg) = 5
               /\ validation.val.msg[1] = "File size ("
               /\ NearestTenth(validation.val.msg[2], vlog[2].file.size)
               /\ validation.val.msg[3] = "MB) exceeds limit ("
               /\ validation.val.msg[4] = ToString(settings.max_file_size_mb)
               /\ validation.val.msg[5] = "MB)"
    /\ validate_file_size(
          RegularFile(settings.max_file_size_mb * 1048576, "application/pdf"),
          settings) = [ok |-> TRUE, msg |-> <<>>]
    /\ ~validate_file_size(
          RegularFile(settings.max_file_size_mb * 1048576 + 1, "application/pdf"),
          settings).ok

\* With a limit of 1 MB, the file of 1,048,577 bytes has been refused.
C9_Witness ==
    /\ settings.max_file_size_mb = 1
    /\ Len(vlog) = 2
    /\ vlog[2].file.size = 1048577
    /\ validation = Some([ok |-> FALSE,
                          msg |-> <<"File size (", "1.0", "MB) exceeds limit (",
                                    "1", "MB)">>])

\* The canonical format of an accepted type.
Canonical(mime) ==
    CASE mime = "application/pdf" -> "pdf"
      [] mime = "image/png" -> "png"
      [] OTHER -> "jpg"

\* C10: the verdict on the content type depends on the sniffed type alone,
\* never on the name: the file is accepted iff its type is application/pdf,
\* image/png, image/jpeg or image/jpg, with the reason "Valid <fmt> file"
\* for <fmt> the canonical pdf, png or jpg, and any other type is rejected
\* with "Unsupported file type: <mime>".
C10_MimeDecides ==
    (Len(vlog) = 3 /\ vlog[3].file.kind = "file") =>
        /\ validation # None
        /\ IF vlog[3].file.mime \in AcceptedMimes
           THEN validation.val =
                   [ok |-> TRUE,
                    msg |-> <<"Valid ", Canonical(vlog[3].file.mime), " file">>]
           ELSE validation.val =
                   [ok |-> FALSE,
                    msg |-> <<"Unsupported file type: ", vlog[3].file.mime>>]

\* A file named .pdf with a PNG header has been accepted as png.
C10_Witness ==
    /\ input_file.suffix = ".pdf"
    /\ Len(vlog) = 3
    /\ vlog[3].file.mime = "image/png"
    /\ validation = Some([ok |-> TRUE, msg |-> <<"Valid ", "png", " file">>])

\* The families _setup_environment knows, and a model identifier naming one.
Families == {<<"g","p","t">>, <<"g","e","m","i","n","i">>, <<"c","l","a","u","d","e">>}
Recognized(model) == \E f \in Families : IsSubSeq(f, Lower(model))

\* C11: when the selected model identifier contains none of "gpt", "gemini",
\* "claude", that is a fatal configuration error: no processor goes on to
\* extraction and the backend is not called.
C11_UnrecognizedModelFatal ==
    \A i \in 1..3 :
        (FirstConfigured(i) /\ ~Recognized(Preference[i].model)) =>
            /\ processor = None
            /\ stages = <<>>
            /\ backend_calls = 0

\* C12: the parser is total: whatever content process_invoice hands it, a
\* null content included, it returns an InvoiceData and does not raise, so
\* every run whose backend call returned ends in a successful result; for a
\* content it could not read the notes start with "Parsing error: ".
C12_ParserTotal ==
    (Len(stages) >= 2 /\ stages[2] = "Extracted" /\ pc # "p_parse") =>
        /\ result # None
        /\ result.val.success
        /\ content.val.type # "str" =>
              result.val.invoice_data.val.notes.val[1] = "Parsing error: "

\* The first k characters of a text, as an f-string shows them.
FirstChars(text, k) ==
    text.name \o "[:" \o ToString(IF text.len <= k THEN text.len ELSE k) \o "]"

\* C13 as claimed: for a response that is not structured data the record's
\* notes contain the first 500 characters of the response, its structured
\* fields (invoice number, dates, vendor, customer, totals, payment terms)
\* are all null, line_items is empty, and the result is a success.
C13_Original ==
    (result # None /\ result.val.success) =>
        LET data == result.val.invoice_data.val
        IN  /\ Says(FirstChars(content.val, 500), data.notes.val)
            /\ data.invoice_number = None
            /\ data.date = None /\ data.due_date = None
            /\ data.vendor = None /\ data.customer = None
            /\ data.totals = None /\ data.payment_terms = None
            /\ data.line_items = <<>>

\* C13 as amended: for a textual response the record's notes are "Raw
\* extracted content: ", the first 500 characters of the response and
\* "..."; invoice_number is the fixed text "Extracted from AI response",
\* the other structured fields (dates, vendor, customer, totals, payment
\* terms) are null, line_items is empty, and the result is a success.
C13_FloorRecord ==
    /\ (result # None /\ result.val.success) =>
          LET data == result.val.invoice_data.val
          IN  /\ content.val.type = "str"
              /\ data.notes = Some(<<"Raw extracted content: ",
                                     FirstChars(content.val, 500), "...">>)
              /\ data.invoice_number = Some("Extracted from AI response")
              /\ data.date = None /\ data.due_date = None
              /\ data.vendor = None /\ data.customer = None
              /\ data.totals = None /\ data.payment_terms = None
              /\ data.line_items = <<>>
    /\ (result # None /\ content # None /\ content.val.type = "str") =>
          result.val.success

\* A response of 501 characters, of which the notes hold the first 500.
C13_Witness ==
    /\ result # None
    /\ result.val.success
    /\ content = Some(Text("raw", 501))
    /\ Says("raw[:500]", result.val.invoice_data.val.notes.val)

\* The details of the failures of the backend.
FailureDetails == {"network unreachable", "invalid api key"}
\* A run whose backend call failed.
BackendFailed == stages = <<"Start", "Failed">> /\ backend_calls = 1

PresentAtStart == ~(fs = Missing /\ fs_changes = 0)

\* C15: the exit code of the command line is that of the first failing
\* step: 2 for a path that does not exist, credentials or not; 1, with a
\* message on standard error, when no backend is configured, validation
\* fails, or processing fails or raises; 0 only when processing succeeded
\* and the output file was written.
C15_ExitCodes ==
    (caller = "cli" /\ pc = "exited") =>
        /\ exit_code \in {Some(0), Some(1), Some(2)}
        /\ ~PresentAtStart <=> exit_code = Some(2)
        /\ (PresentAtStart /\ NoCredentials) =>
              (exit_code = Some(1) /\ vlog = <<>> /\ backend_calls = 0)
        /\ (validation # None /\ ~validation.val.ok) =>
              (exit_code = Some(1) /\ backend_calls = 0)
        /\ (result # None /\ ~result.val.success) => exit_code = Some(1)
        /\ exit_code = Some(1) =>
              /\ stderr # <<>>
              /\ \/ NoCredentials
                 \/ validation = None \/ ~validation.val.ok
                 \/ result # None
        /\ exit_code = Some(0) =>
              (result # None /\ result.val.success /\ output_file # None)
        /\ exit_code # Some(0) => output_file = None

\* A path that does not exist, with no credentials: status 2, not 1.
C15_Witness ==
    /\ caller = "cli" /\ pc = "exited"
    /\ NoCredentials
    /\ fs = Missing
    /\ exit_code = Some(2)

\* C16 as claimed: after a run whose result is a failure the output file
\* exists and its "success" is false.
C16_Original ==
    (caller = "cli" /\ pc = "exited" /\ result # None /\ ~result.val.success) =>
        /\ output_file # None
        /\ ~output_file.val.document.success

\* C16 as amended: the output document, with the keys success,
\* processing_time, confidence_score, invoice_data and metadata, is written
\* only when processing succeeded; after a run whose result is a failure the
\* command exits 1 and there is no output file.
C16_WrittenOnSuccessOnly ==
    /\ output_file # None =>
          /\ DOMAIN output_file.val.document =
                {"success", "processing_time", "confidence_score",
                 "invoice_data", "metadata"}
          /\ output_file.val.path = output.val.path
          /\ result # None /\ result.val.success
          /\ output_file.val.document.success
    /\ (caller = "cli" /\ pc = "exited" /\ result # None /\ ~result.val.success) =>
          (output_file = None /\ exit_code = Some(1))

\* A run of the command line that ended on a failed result, with no file.
C16_Witness ==
    /\ caller = "cli" /\ pc = "exited"
    /\ result # None /\ ~result.val.success
    /\ output_file = None

\* C17: when the backend call fails the command exits 1, writes no output
\* file, and a line of standard error has "Processing failed: " followed by
\* the detail of the failure.
C17_BackendFailure ==
    (caller = "cli" /\ pc = "exited" /\ BackendFailed) =>
        /\ exit_code = Some(1)
        /\ output_file = None
        /\ \E i \in 1..Len(stderr) :
              \E j \in 1..Len(stderr[i]), k \in 1..Len(stderr[i]) :
                  /\ j < k
                  /\ stderr[i][j] = "Processing failed: "
                  /\ stderr[i][k] \in FailureDetails
                  /\ Says(stderr[i][k], result.val.error_message.val)

\* The command line has exited after the backend was unreachable.
C17_Witness ==
    /\ caller = "cli" /\ pc = "exited" /\ BackendFailed
    /\ Says("network unreachable", stderr[Len(stderr)])

\* C18: a run that succeeded with no --output given has written the
\* document to the input path with its extension replaced by .json; in the
\* document success is true, processing_time and invoice_data are those of
\* the result, and metadata.model_used is the model of the processor, the
\* configured model of the preferred backend.
C18_DefaultOutput ==
    (caller = "cli" /\ exit_code = Some(0) /\ ~output.val.given) =>
        /\ output_file # None
        /\ output_file.val.path = [stem |-> input_file.stem, suffix |-> ".json"]
        /\ output_file.val.document.success = TRUE
        /\ output_file.val.document.processing_time = result.val.processing_time
        /\ output_file.val.document.invoice_data = result.val.invoice_data
        /\ output_file.val.document.metadata.model_used = processor.val.model
        /\ \E i \in 1..3 :
              /\ FirstConfigured(i)
              /\ output_file.val.document.metadata.model_used = Preference[i].model

\* invoice.pdf processed with the Gemini backend and written to invoice.json.
C18_Witness ==
    /\ caller = "cli" /\ exit_code = Some(0) /\ ~output.val.given
    /\ input_file = [stem |-> "invoice", suffix |-> ".pdf"]
    /\ output_file.val.path = [stem |-> "invoice", suffix |-> ".json"]
    /\ ~Set(settings.openai_api_key) /\ Set(settings.gemini_api_key)
    /\ output_file.val.document.metadata.model_used = settings.gemini_model

\* C19: a credential is exported only to the environment variable of the
\* backend it was configured for, and the variables of the other backends
\* are left as they were, also when a model identifier contains the
\* substring of another family.
C19_CredentialsStayHome ==
    /\ environ.OPENAI_API_KEY = settings.openai_api_key
    /\ environ.GEMINI_API_KEY = settings.gemini_api_key
    /\ environ.ANTHROPIC_API_KEY = settings.anthropic_api_key

\* C20: validate_invoice_file always returns an (ok, reason) pair and never
\* raises, also when the file is removed or replaced between its checks; a
\* file that has been removed gives a failure pair.
C20_ValidatorReturnsPair ==
    (vlog # <<>> /\ pc \notin {"v_exists", "v_size", "v_format"}) =>
        /\ validation # None
        /\ ~(exception # None /\ exception.val.type = "FileNotFoundError")
        /\ fs = Missing => ~validation.val.ok

====
